---- MODULE Spec2Model ----
(***************************************************************************)
(* Model of scripts/assemble_helper.py: main() and assemble_and_save().    *)
(* Text is a sequence of one-character strings; the regular expression,    *)
(* str.split and int(x, 16) are computed character by character.           *)
(***************************************************************************)
EXTENDS Integers, Sequences, FiniteSets, TLC

(* ------------------------------ bounds --------------------------------- *)
MaxFragments == 3
MaxArgc == 4

(* ------------------------- text and characters ------------------------- *)
FAILED == <<"F","A","I","L","E","D">>
SUCCEEDED == <<"S","U","C","C","E","E","D","E","D">>

HexLower == <<"0","1","2","3","4","5","6","7","8","9","a","b","c","d","e","f">>
HexUpper == <<"0","1","2","3","4","5","6","7","8","9","A","B","C","D","E","F">>

IsHex(c) == \E i \in 1..16 : HexLower[i] = c \/ HexUpper[i] = c
IsSpace(c) == c \in {" ", "\n"}

DigitValue(c) == (CHOOSE i \in 1..16 : HexLower[i] = c \/ HexUpper[i] = c) - 1

(* Pieces of assembler output the child process may print. *)
Fragments ==
  { <<"S","U","C","C","E","E","D","E","D","\n">>,
    <<"F","A","I","L","E","D","\n">>,
    <<"8","0","0",":"," ","a","9"," ","0","0","\n">>,
    <<"8","0","5",":"," ","6","0","\n">>,
    <<"1","0","0","0",":"," ","F","F","\n">>,
    <<"8","0","0",":"," ","a","9","0","0","\n">>,
    <<"o","k","\n">>,
    <<"8","0","0",":","a","9","\n">> }

(* Destination file before the run: absent, shorter, longer. *)
Absent == [exists |-> FALSE, data |-> <<>>]
InitialFiles == { Absent,
                  [exists |-> TRUE, data |-> <<1>>],
                  [exists |-> TRUE, data |-> <<1,2,3,4,5,6,7>>] }

(* ------------------------- 'pat' in result.stdout ---------------------- *)
Find(t, pat, i) ==
  LET at[j \in 1..(Len(t) + 1)] ==
        IF j + Len(pat) - 1 > Len(t) THEN 0
        ELSE IF SubSeq(t, j, j + Len(pat) - 1) = pat THEN j
        ELSE at[j + 1]
  IN  at[i]

Contains(t, pat) == Find(t, pat, 1) # 0

ClassificationSuccessFirst(t) ==
  IF Contains(t, SUCCEEDED) THEN "Proceed"
  ELSE IF Contains(t, FAILED) THEN "Failed"
  ELSE "UnexpectedOutput"

Classification(t) ==
  IF Contains(t, FAILED) THEN "Failed"
  ELSE IF ~Contains(t, SUCCEEDED) THEN "UnexpectedOutput"
  ELSE "Proceed"

(* ------------------------------ hex_pattern ---------------------------- *)
SkipHex(t, i) ==
  LET skip[j \in 1..(Len(t) + 1)] ==
        IF j <= Len(t) /\ IsHex(t[j]) THEN skip[j + 1] ELSE j
  IN  skip[i]

SkipSpace(t, i) ==
  LET skip[j \in 1..(Len(t) + 1)] ==
        IF j <= Len(t) /\ IsSpace(t[j]) THEN skip[j + 1] ELSE j
  IN  skip[i]

\* the greedy run of two-digit pairs, each followed by optional whitespace:
\* position after the last pair and its whitespace
GroupEnd(t, i) ==
  LET end[j \in 1..(Len(t) + 1)] ==
        IF j + 1 <= Len(t) /\ IsHex(t[j]) /\ IsHex(t[j + 1])
        THEN end[SkipSpace(t, j + 2)]
        ELSE j
  IN  end[i]

AtLineStart(t, p) == p = 1 \/ t[p - 1] = "\n"

(* one match attempt of hex_pattern at position p *)
MatchAt(t, p) ==
  LET a == SkipHex(t, p)
      s == SkipSpace(t, a + 1)
      e == GroupEnd(t, s)
  IN  IF /\ AtLineStart(t, p)
         /\ a > p
         /\ a <= Len(t)
         /\ t[a] = ":"
         /\ s > a + 1
         /\ e > s
      THEN [ok |-> TRUE, gs |-> s, end |-> e]
      ELSE [ok |-> FALSE, gs |-> 0, end |-> 0]

(* spans <<first, last>> of group 1 of the successive non-overlapping matches *)
MatchSpans(t, p) ==
  LET scan[q \in 1..(Len(t) + 1)] ==
        IF q > Len(t) THEN <<>>
        ELSE LET m == MatchAt(t, q)
             IN  IF m.ok THEN <<(<<m.gs, m.end - 1>>)>> \o scan[m.end]
                 ELSE scan[q + 1]
  IN  scan[p]

findall(t) ==
  LET sp == MatchSpans(t, 1)
  IN  [k \in 1..Len(sp) |-> SubSeq(t, sp[k][1], sp[k][2])]

(* ---------------------- match.strip().split() -------------------------- *)
SkipWord(g, i) ==
  LET skip[j \in 1..(Len(g) + 1)] ==
        IF j <= Len(g) /\ ~IsSpace(g[j]) THEN skip[j + 1] ELSE j
  IN  skip[i]

split(g) ==
  LET words[i \in 1..(Len(g) + 1)] ==
        LET b == SkipSpace(g, i)
        IN  IF b > Len(g) THEN <<>>
            ELSE <<SubSeq(g, b, SkipWord(g, b) - 1)>> \o words[SkipWord(g, b)]
  IN  words[1]

(* int(hex_byte, 16) *)
HexInt(tok) ==
  LET value[n \in 0..Len(tok)] ==
        IF n = 0 THEN 0 ELSE 16 * value[n - 1] + DigitValue(tok[n])
  IN  value[Len(tok)]

(* the two nested loops that append to code_bytes *)
CollectBytes(ms) ==
  LET from[j \in 1..(Len(ms) + 1)] ==
        IF j > Len(ms) THEN <<>>
        ELSE LET toks == split(ms[j])
             IN  [k \in 1..Len(toks) |-> HexInt(toks[k])] \o from[j + 1]
  IN  from[1]

NoMatchesNever(ms) == FALSE

NoMatches(ms) == Len(ms) = 0

(* bytes(code_bytes) raises ValueError unless every element is in range(256) *)
BytesOk(bs) == \A k \in 1..Len(bs) : bs[k] \in 0..255

(* ------------------------------ main ----------------------------------- *)
WrongArgCountTooFew(n) == n < 3

WrongArgCount(n) == n # 3

(* ------------------------------ open(..., 'wb') ------------------------ *)
OpenAppend(f) == [exists |-> TRUE, data |-> f.data]

OpenTruncate(f) == [exists |-> TRUE, data |-> <<>>]

(* ------------------------------ launch --------------------------------- *)
AfterNotFoundRetryOnce(n) == IF n < 1 THEN "launch" ELSE "exit"

AfterNotFound(n) == "exit"

(* ------------------------------ state ---------------------------------- *)
VARIABLES
  argc,        \* len(sys.argv)
  pc,          \* position of the single thread of control
  launchErr,   \* exception raised by subprocess.run, or "none"
  stdout,      \* result.stdout
  class,       \* outcome of the two marker tests, or "none"
  matches,     \* hex_pattern.findall(result.stdout)
  code_bytes,  \* list of decoded integers
  file,        \* destination file on disk
  file0,       \* destination file before the run
  success,     \* return value of assemble_and_save: "none", "True", "False"
  raised,      \* exception that left assemble_and_save uncaught, or "none"
  exitStatus,  \* process exit status, -1 while running
  printed,     \* messages printed, in order
  reported,    \* byte count in the success message, -1 if none
  spawns,      \* calls of subprocess.run
  writes,      \* pieces of output the child has written so far
  stages       \* pipeline stages entered, in order

vars == <<argc, pc, launchErr, stdout, class, matches, code_bytes, file, file0,
          success, raised, exitStatus, printed, reported, spawns, writes, stages>>

Init ==
  /\ argc \in 1..MaxArgc
  /\ file0 \in InitialFiles
  /\ file = file0
  /\ pc = "main"
  /\ launchErr = "none"
  /\ stdout = <<>>
  /\ class = "none"
  /\ matches = <<>>
  /\ code_bytes = <<>>
  /\ success = "none"
  /\ raised = "none"
  /\ exitStatus = -1
  /\ printed = <<>>
  /\ reported = -1
  /\ spawns = 0
  /\ writes = 0
  /\ stages = <<>>

(* main(): argument count check, then the call of assemble_and_save *)
Main ==
  /\ pc = "main"
  /\ IF WrongArgCount(argc)
     THEN /\ printed' = Append(printed, "usage")
          /\ exitStatus' = 1
          /\ pc' = "done"
     ELSE /\ pc' = "launch"
          /\ UNCHANGED <<printed, exitStatus>>
  /\ UNCHANGED <<writes, argc, launchErr, stdout, class, matches, code_bytes, file, file0,
                 success, raised, reported, spawns, stages>>

(* subprocess.run(...) starts the child, or fails to *)
Launch ==
  /\ pc = "launch"
  /\ spawns' = spawns + 1
  /\ stages' = Append(stages, "invoke")
  /\ \E r \in {"started", "FileNotFoundError", "PermissionError"} :
       \/ /\ r = "started"
          /\ pc' = "wait"
          /\ UNCHANGED <<launchErr, printed, success, raised>>
       \/ /\ r = "FileNotFoundError"
          /\ launchErr' = r
          /\ printed' = Append(printed, "not_found_hint")
          /\ success' = "False"
          /\ pc' = AfterNotFound(spawns)
          /\ UNCHANGED raised
       \/ /\ r = "PermissionError"
          /\ launchErr' = r
          /\ raised' = r
          /\ pc' = "exit"
          /\ UNCHANGED <<printed, success>>
  /\ UNCHANGED <<writes, argc, stdout, class, matches, code_bytes, file, file0,
                 exitStatus, reported>>

(* the child prints a piece of output, captured through the pipe *)
ChildWrite ==
  /\ pc = "wait"
  /\ writes < MaxFragments
  /\ writes' = writes + 1
  /\ \E f \in Fragments : stdout' = stdout \o f
  /\ UNCHANGED <<argc, pc, launchErr, class, matches, code_bytes, file, file0,
                 success, raised, exitStatus, printed, reported, spawns, stages>>

(* the child terminates; subprocess.run returns its captured standard output *)
ChildExit ==
  /\ pc = "wait"
  /\ pc' = "classify"
  /\ UNCHANGED <<argc, launchErr, stdout, class, matches, code_bytes, file, file0,
                 success, raised, exitStatus, printed, reported, spawns, writes, stages>>

(* the two marker tests *)
Classify ==
  /\ pc = "classify"
  /\ stages' = Append(stages, "classify")
  /\ class' = Classification(stdout)
  /\ IF class' = "Failed"
     THEN /\ printed' = printed \o <<"assembly_failed", "stdout">>
          /\ success' = "False"
          /\ pc' = "exit"
     ELSE IF class' = "UnexpectedOutput"
     THEN /\ printed' = printed \o <<"unexpected_output", "stdout">>
          /\ success' = "False"
          /\ pc' = "exit"
     ELSE /\ pc' = "extract"
          /\ UNCHANGED <<printed, success>>
  /\ UNCHANGED <<writes, argc, launchErr, stdout, matches, code_bytes, file, file0,
                 raised, exitStatus, reported, spawns>>

(* findall, the empty check and the collection of the bytes *)
Extract ==
  /\ pc = "extract"
  /\ stages' = Append(stages, "extract")
  /\ matches' = findall(stdout)
  /\ IF NoMatches(matches')
     THEN /\ printed' = printed \o <<"no_hex_dump", "stdout">>
          /\ success' = "False"
          /\ pc' = "exit"
          /\ UNCHANGED code_bytes
     ELSE /\ code_bytes' = CollectBytes(matches')
          /\ pc' = "open"
          /\ UNCHANGED <<printed, success>>
  /\ UNCHANGED <<writes, argc, launchErr, stdout, class, file, file0,
                 raised, exitStatus, reported, spawns>>

(* open(output_file, 'wb') *)
OpenFile ==
  /\ pc = "open"
  /\ stages' = Append(stages, "write")
  /\ \E ok \in BOOLEAN :
       IF ok
       THEN /\ file' = OpenTruncate(file)
            /\ pc' = "write"
            /\ UNCHANGED <<printed, success>>
       ELSE /\ printed' = Append(printed, "write_error")
            /\ success' = "False"
            /\ pc' = "exit"
            /\ UNCHANGED file
  /\ UNCHANGED <<writes, argc, launchErr, stdout, class, matches, code_bytes, file0,
                 raised, exitStatus, reported, spawns>>

(* f.write(bytes(code_bytes)), close, success message *)
WriteFile ==
  /\ pc = "write"
  /\ pc' = "exit"
  /\ IF ~BytesOk(code_bytes)
     THEN /\ raised' = "ValueError"
          /\ UNCHANGED <<file, printed, success, reported>>
     ELSE /\ UNCHANGED raised
          /\ \E n \in 0..(Len(code_bytes) + 1) :
               IF n = Len(code_bytes) + 1
               THEN /\ file' = [file EXCEPT !.data = file.data \o code_bytes]
                    /\ printed' = Append(printed, "success")
                    /\ reported' = Len(code_bytes)
                    /\ success' = "True"
               ELSE /\ file' = [file EXCEPT !.data = file.data \o SubSeq(code_bytes, 1, n)]
                    /\ printed' = Append(printed, "write_error")
                    /\ success' = "False"
                    /\ UNCHANGED reported
  /\ UNCHANGED <<writes, argc, launchErr, stdout, class, matches, code_bytes, file0,
                 exitStatus, spawns, stages>>

(* sys.exit(0 if success else 1), or the interpreter ending on a traceback *)
Exit ==
  /\ pc = "exit"
  /\ exitStatus' = IF raised = "none" /\ success = "True" THEN 0 ELSE 1
  /\ pc' = "done"
  /\ UNCHANGED <<writes, argc, launchErr, stdout, class, matches, code_bytes, file, file0,
                 success, raised, printed, reported, spawns, stages>>

Next ==
  \/ Main
  \/ Launch
  \/ ChildWrite
  \/ ChildExit
  \/ Classify
  \/ Extract
  \/ OpenFile
  \/ WriteFile
  \/ Exit

Spec == Init /\ [][Next]_vars

(* the interpreter always takes its next step, and the child terminates *)
LiveSpec == Spec /\ WF_vars(Next)

(* ------------------------- vocabulary of the claims -------------------- *)
HasSubstring(t, pat) ==
  \E i \in 1..Len(t) :
    /\ i + Len(pat) - 1 <= Len(t)
    /\ \A k \in 1..Len(pat) : t[i + k - 1] = pat[k]

Failures == {"UsageError", "ExecutableNotFound", "AssemblyFailed",
             "UnexpectedOutput", "NoHexDumpFound", "IOFailure"}

(* the outcome the run reported, read off the first message it printed *)
Outcome ==
  IF printed = <<>> THEN "none"
  ELSE CASE printed[1] = "usage" -> "UsageError"
         [] printed[1] = "not_found_hint" -> "ExecutableNotFound"
         [] printed[1] = "assembly_failed" -> "AssemblyFailed"
         [] printed[1] = "unexpected_output" -> "UnexpectedOutput"
         [] printed[1] = "no_hex_dump" -> "NoHexDumpFound"
         [] printed[1] = "write_error" -> "IOFailure"
         [] printed[1] = "success" -> "Success"

Launched == spawns = 1 /\ launchErr = "none"

(* hex-dump lines as the specification describes them: line by line *)
RECURSIVE LineEnd(_,_)
LineEnd(t, p) == IF p <= Len(t) /\ t[p] # "\n" THEN LineEnd(t, p + 1) ELSE p

LineAt(t, p) == SubSeq(t, p, LineEnd(t, p) - 1)

IsHexDumpLine(l) == MatchAt(l, 1).ok

LineBytes(l) ==
  IF ~IsHexDumpLine(l) THEN <<>>
  ELSE LET m == MatchAt(l, 1)
           d == SelectSeq(SubSeq(l, m.gs, m.end - 1), IsHex)
       IN  [k \in 1..(Len(d) \div 2) |->
              16 * DigitValue(d[2 * k - 1]) + DigitValue(d[2 * k])]

RECURSIVE LinewiseBytes(_,_)
LinewiseBytes(t, p) ==
  IF p > Len(t) THEN <<>>
  ELSE LineBytes(LineAt(t, p)) \o LinewiseBytes(t, LineEnd(t, p) + 1)

HexDumpLineStarts(t) ==
  { p \in 1..Len(t) : AtLineStart(t, p) /\ IsHexDumpLine(LineAt(t, p)) }

AddressPositions(t) ==
  UNION { p..(SkipHex(t, p) - 1) : p \in HexDumpLineStarts(t) }

DecodedPositions(t) ==
  LET sp == MatchSpans(t, 1)
  IN  { i \in UNION { sp[k][1]..sp[k][2] : k \in 1..Len(sp) } : IsHex(t[i]) }

Extracted == pc \in {"open", "write", "exit", "done"} /\ class = "Proceed" /\ matches # <<>>

(* ------------------------------ claims --------------------------------- *)

\* C1: once the bytes of a Proceed output have been collected, the byte
\* sequence is the concatenation of the two-digit tokens of its hex-dump
\* lines, line by line and left to right, and has as many elements as there
\* are tokens.
C1_OrderAndCompleteness ==
  Extracted =>
    /\ code_bytes = LinewiseBytes(stdout, 1)
    /\ Len(code_bytes) = Len(LinewiseBytes(stdout, 1))

\* C2: the classification is Failed when the text contains FAILED, otherwise
\* UnexpectedOutput when it lacks SUCCEEDED, otherwise Proceed; Proceed holds
\* exactly when SUCCEEDED is present and FAILED is not.
C2_Classification ==
  class # "none" =>
    /\ class \in {"Failed", "UnexpectedOutput", "Proceed"}
    /\ (class = "Failed") = HasSubstring(stdout, FAILED)
    /\ (class = "UnexpectedOutput") =
         (~HasSubstring(stdout, FAILED) /\ ~HasSubstring(stdout, SUCCEEDED))
    /\ (class = "Proceed") =
         (HasSubstring(stdout, SUCCEEDED) /\ ~HasSubstring(stdout, FAILED))

C2_Witness ==
  /\ class = "Failed"
  /\ HasSubstring(stdout, SUCCEEDED)
  /\ pc = "done"

\* C3: the destination file differs from what it was before the run only if
\* the assembler was launched, the classification is Proceed and a line
\* matched; a run ending in a usage error, ExecutableNotFound, AssemblyFailed,
\* UnexpectedOutput or NoHexDumpFound never entered the write stage and left
\* the file as it was.
C3_FileFrame ==
  /\ ("write" \in {stages[k] : k \in 1..Len(stages)} \/ file # file0) =>
       (Launched /\ class = "Proceed" /\ matches # <<>>)
  /\ (Outcome \in (Failures \ {"IOFailure"})) =>
       (file = file0 /\ "write" \notin {stages[k] : k \in 1..Len(stages)})

C3_Witness ==
  /\ pc = "done"
  /\ Outcome = "NoHexDumpFound"
  /\ HasSubstring(stdout, SUCCEEDED)
  /\ file0.exists
  /\ file = file0

\* C4: a finished run exited with status 0 exactly when it reported success
\* and with status 1 exactly when it reported one of the failures, and no
\* exception left the program unhandled.
C4_DefiniteOutcome ==
  pc = "done" =>
    /\ raised = "none"
    /\ (exitStatus = 0) = (Outcome = "Success")
    /\ (exitStatus = 1) = (Outcome \in Failures)

\* C5: every byte sequence handed to the writer holds only integers in 0..255.
C5_BytesInRange ==
  pc \in {"open", "write"} => \A k \in 1..Len(code_bytes) : code_bytes[k] \in 0..255

\* C6: no hex digit of the address prefix of a hex-dump line is decoded into
\* the byte sequence.
C6_AddressNotDecoded ==
  Extracted => AddressPositions(stdout) \cap DecodedPositions(stdout) = {}

\* C7: whenever the launch of the assembler fails, the run prints the build
\* hint and ends with status 1, no exception propagates, nothing is
\* classified or extracted and the launch is not retried.
C7_LaunchFailure ==
  (launchErr # "none" /\ pc = "done") =>
    /\ raised = "none"
    /\ printed = <<"not_found_hint">>
    /\ exitStatus = 1
    /\ spawns = 1
    /\ stages = <<"invoke">>

\* C8: with an argument count other than two (argv length other than three)
\* the run prints the usage message and exits with status 1, the assembler
\* is never spawned and the destination file is untouched.
C8_UsageError ==
  argc # 3 =>
    /\ spawns = 0
    /\ stages = <<>>
    /\ file = file0
    /\ pc = "done" => (printed = <<"usage">> /\ exitStatus = 1)

C8_Witness ==
  /\ argc = 4
  /\ pc = "done"
  /\ Outcome = "UsageError"
  /\ exitStatus = 1

\* C9: after a successful run the destination file exists and holds exactly
\* the byte sequence, whatever it held before, and the reported count is the
\* length of the byte sequence.
C9_Overwrite ==
  (pc = "done" /\ success = "True") =>
    /\ file.exists
    /\ file.data = code_bytes
    /\ reported = Len(code_bytes)
    /\ exitStatus = 0

C9_Witness ==
  /\ pc = "done"
  /\ success = "True"
  /\ Len(code_bytes) >= 2
  /\ Len(file0.data) > Len(code_bytes)
  /\ file.data = code_bytes

AllStages == <<"invoke", "classify", "extract", "write">>

C10_Safe ==
  /\ spawns <= 1
  /\ (argc = 3 /\ pc = "done") => spawns = 1
  /\ Len(stages) <= 4
  /\ stages = SubSeq(AllStages, 1, Len(stages))
  /\ Len(stages) >= 2 => (launchErr = "none" /\ pc # "wait")
  /\ Len(stages) >= 3 => class = "Proceed"
  /\ Len(stages) >= 4 => matches # <<>>

\* C10: the assembler is spawned at most once, exactly once in a finished
\* run with two arguments; the stages happen in the order invoke, classify,
\* extract, write, each at most once and only after the previous one
\* succeeded; and the run eventually ends.
C10_SequentialPipeline == []C10_Safe /\ <>(pc = "done")

C10_Witness ==
  /\ pc = "done"
  /\ stages = AllStages
  /\ spawns = 1
  /\ success = "True"

====
